---- MODULE Spec2Model ----
(***************************************************************************)
(* State machine of the snake game of main.go: the global `snake`, the     *)
(* frame loop of run() (key polling, then a tick when the interval has     *)
(* elapsed), and the three steps of a tick: move, checkPoint,              *)
(* checkCollisions.                                                        *)
(***************************************************************************)
EXTENDS Integers, Sequences, FiniteSets, TLC

\* const size = 10: the board is size x size cells, numbered from 1.
size == 10

\* Number of ticks explored from the initial snake.
MaxTicks == 3

\* Nesting depth of the recursive redraw in generateNextPoint that is explored.
MaxDepth == 1

\* Number of ticks explored with the inputs of every frame recorded.
MaxWatched == 2

\* Number of keys held down together in one frame that is explored.
MaxPressed == 1

\* type Point struct { x int64; y int64 }
Point(x, y) == [x |-> x, y |-> y]

\* The cells of the board.
Grid == {Point(x, y) : x \in 1..size, y \in 1..size}

\* The direction bytes 'u', 'd', 'l', 'r'.
Directions == {"u", "d", "l", "r"}

\* The four arrow keys polled by run().
Keys == {"KeyLeft", "KeyRight", "KeyUp", "KeyDown"}

\* What win.Pressed can report in one frame.
KeySets == {k \in SUBSET Keys : Cardinality(k) <= MaxPressed}

VARIABLES
    snake,      \* the global `snake` (type Snake)
    crashed,    \* TRUE once a run-time panic or stack overflow has ended the process
    pressed,    \* the keys win.Pressed reported in the last frame (when recorded)
    ticked,     \* TRUE when the last frame did a tick (when recorded)
    ticks,      \* number of ticks done so far
    ate,        \* TRUE when checkPoint found the head on the food in the last tick
    lenBefore,  \* len(snake.tail) when the last tick began, kept while `ate` (else 0)
    moved       \* snake.tail as the move step of the last tick left it

vars == <<snake, crashed, pressed, ticked, ticks, ate, lenBefore, moved>>

----------------------------------------------------------------------------
\* stepHead without the `s.head.y < 1` test: the head leaves the board upwards.
stepHeadNoWrapUp(h, dir) ==
    LET dY == IF dir = "u" THEN -1 ELSE IF dir = "d" THEN 1 ELSE 0
        dX == IF dir = "l" THEN -1 ELSE IF dir = "r" THEN 1 ELSE 0
        y0 == h.y + dY
        x0 == h.x + dX
        y1 == IF y0 > 10 THEN 1 ELSE y0
        x1 == IF x0 > 10 THEN 1 ELSE x0
        x2 == IF x1 < 1 THEN 10 ELSE x1
    IN  Point(x2, y1)

\* stepHead without the `s.head.y > 10` test: the head leaves the board downwards.
stepHeadNoWrapDown(h, dir) ==
    LET dY == IF dir = "u" THEN -1 ELSE IF dir = "d" THEN 1 ELSE 0
        dX == IF dir = "l" THEN -1 ELSE IF dir = "r" THEN 1 ELSE 0
        y0 == h.y + dY
        x0 == h.x + dX
        y2 == IF y0 < 1 THEN 10 ELSE y0
        x1 == IF x0 > 10 THEN 1 ELSE x0
        x2 == IF x1 < 1 THEN 10 ELSE x1
    IN  Point(x2, y2)

\* Snake.move, the head: one step in s.direction, then the four wrap tests.
stepHead(h, dir) ==
    LET dY == IF dir = "u" THEN -1 ELSE IF dir = "d" THEN 1 ELSE 0
        dX == IF dir = "l" THEN -1 ELSE IF dir = "r" THEN 1 ELSE 0
        y0 == h.y + dY
        x0 == h.x + dX
        y1 == IF y0 > 10 THEN 1 ELSE y0
        y2 == IF y1 < 1 THEN 10 ELSE y1
        x1 == IF x0 > 10 THEN 1 ELSE x0
        x2 == IF x1 < 1 THEN 10 ELSE x1
    IN  Point(x2, y2)

\* moveDelta dropping two cells when no growth is pending.
moveDeltaTwo(s) == IF s.growth > 0 THEN 0 ELSE 2

\* Snake.move, the shrink amount: 0 when a growth is pending, else 1.
moveDelta(s) == IF s.growth > 0 THEN 0 ELSE 1

\* The slice s.tail[:len(s.tail)-delta] of Snake.move is out of range.
movePanics(s) == Len(s.tail) - moveDelta(s) < 0

\* Snake.move dropping the delta cells from the front of the rebuilt tail.
moveDropFront(s) ==
    LET delta == moveDelta(s)
        growth == IF s.growth > 0 THEN s.growth - 1 ELSE s.growth
        tail == SubSeq(<<s.head>> \o s.tail, 1 + delta, Len(s.tail) + 1)
        direction == s.nextDirection
    IN  [s EXCEPT !.growth = growth,
                  !.tail = tail,
                  !.direction = direction,
                  !.head = stepHead(s.head, direction)]

\* Snake.move without `s.growth--`.
moveNoDecrement(s) ==
    LET delta == moveDelta(s)
        tail == <<s.head>> \o SubSeq(s.tail, 1, Len(s.tail) - delta)
        direction == s.nextDirection
    IN  [s EXCEPT !.tail = tail,
                  !.direction = direction,
                  !.head = stepHead(s.head, direction)]

\* Snake.move
move(s) ==
    LET delta == moveDelta(s)
        growth == IF s.growth > 0 THEN s.growth - 1 ELSE s.growth
        tail == <<s.head>> \o SubSeq(s.tail, 1, Len(s.tail) - delta)
        direction == s.nextDirection
    IN  [s EXCEPT !.growth = growth,
                  !.tail = tail,
                  !.direction = direction,
                  !.head = stepHead(s.head, direction)]

\* The cells rand.Int63n(size - 1) + 1 can give, on both axes.
drawRange == {Point(x, y) : x \in 1..(size - 1), y \in 1..(size - 1)}

\* The `for _, point := range s.tail` loop of generateNextPoint from index i on,
\* with s.nextPoint = p. The loop runs to the first cell equal to p; there
\* generateNextPoint is called again, which leaves one of `inner` in
\* s.nextPoint, and the loop goes on with the next index. With no such cell
\* the loop ends and p stays.
RECURSIVE tailLoop(_, _, _, _)
tailLoop(s, p, i, inner) ==
    LET hits == {j \in i..Len(s.tail) : s.tail[j] = p}
    IN  IF hits = {} THEN {p}
        ELSE LET first == CHOOSE j \in hits : \A k \in hits : j <= k
             IN  UNION {tailLoop(s, q, first + 1, inner) : q \in inner}

\* generateNextPoint without the `s.nextPoint == s.head` test.
RECURSIVE generateNextPointNoHeadTest(_, _)
generateNextPointNoHeadTest(s, depth) ==
    LET inner == IF depth = 0 THEN {} ELSE generateNextPointNoHeadTest(s, depth - 1)
    IN  UNION {tailLoop(s, p, 1, inner) : p \in drawRange}

\* Snake.generateNextPoint: the set of values s.nextPoint can have when the
\* call returns, over all sequences of draws whose recursion nests at most
\* `depth` calls below this one (`inner` is what such a nested call can leave).
RECURSIVE generateNextPoint(_, _)
generateNextPoint(s, depth) ==
    LET inner == IF depth = 0 THEN {} ELSE generateNextPoint(s, depth - 1)
    IN  UNION { UNION {tailLoop(s, q, 1, inner) : q \in IF p = s.head THEN inner ELSE {p}}
                : p \in drawRange }

\* checkPoint moving the food without `s.growth++`.
checkPointNoGrowth(s) ==
    IF s.head = s.nextPoint
    THEN {[s EXCEPT !.nextPoint = p] : p \in generateNextPoint(s, MaxDepth)}
    ELSE {s}

\* checkPoint counting the growth without calling generateNextPoint.
checkPointNoRedraw(s) ==
    IF s.head = s.nextPoint
    THEN {[s EXCEPT !.growth = s.growth + 1]}
    ELSE {s}

\* Snake.checkPoint: the snakes it can leave behind.
checkPoint(s) ==
    IF s.head = s.nextPoint
    THEN LET grown == [s EXCEPT !.growth = s.growth + 1]
         IN  {[grown EXCEPT !.nextPoint = p] : p \in generateNextPoint(grown, MaxDepth)}
    ELSE {s}

\* The smallest index (1-based) of a tail cell equal to the head, 0 if none.
firstHit(s) ==
    IF \E i \in 1..Len(s.tail) : s.tail[i] = s.head
    THEN CHOOSE i \in 1..Len(s.tail) :
            /\ s.tail[i] = s.head
            /\ \A j \in 1..(i - 1) : s.tail[j] # s.head
    ELSE 0

\* checkCollisions keeping the colliding cell: s.tail[0:i+1].
checkCollisionsKeepHit(s) ==
    IF firstHit(s) = 0 THEN s
    ELSE [s EXCEPT !.tail = SubSeq(s.tail, 1, firstHit(s))]

\* checkCollisions leaving the tail as it is.
checkCollisionsNoCut(s) == s

\* Snake.checkCollisions
checkCollisions(s) ==
    IF firstHit(s) = 0 THEN s
    ELSE [s EXCEPT !.tail = SubSeq(s.tail, 1, firstHit(s) - 1)]

\* The initial snake with a head and no tail.
snake0NoTail ==
    [ nextPoint     |-> Point(0, 0),
      growth        |-> 0,
      direction     |-> "u",
      nextDirection |-> "u",
      head          |-> Point(3, 3),
      tail          |-> << >> ]

\* var snake Snake = Snake{...}
snake0 ==
    [ nextPoint     |-> Point(0, 0),
      growth        |-> 0,
      direction     |-> "u",
      nextDirection |-> "u",
      head          |-> Point(3, 3),
      tail          |-> <<Point(3, 4), Point(3, 5), Point(3, 6), Point(3, 7), Point(3, 8)>> ]

\* pollKeys accepting every request, the reverse of the committed direction too.
pollKeysNoFilter(s, keys) ==
    LET n1 == IF "KeyLeft" \in keys THEN "l" ELSE s.nextDirection
        n2 == IF "KeyRight" \in keys THEN "r" ELSE n1
        n3 == IF "KeyUp" \in keys THEN "u" ELSE n2
        n4 == IF "KeyDown" \in keys THEN "d" ELSE n3
    IN  [s EXCEPT !.nextDirection = n4]

\* pollKeys testing the requests against the pending direction instead of the
\* committed one.
pollKeysFilterPending(s, keys) ==
    LET n1 == IF "KeyLeft" \in keys /\ s.nextDirection # "r" THEN "l" ELSE s.nextDirection
        n2 == IF "KeyRight" \in keys /\ n1 # "l" THEN "r" ELSE n1
        n3 == IF "KeyUp" \in keys /\ n2 # "d" THEN "u" ELSE n2
        n4 == IF "KeyDown" \in keys /\ n3 # "u" THEN "d" ELSE n3
    IN  [s EXCEPT !.nextDirection = n4]

\* pollKeys keeping a turn that is already pending: a request is taken only
\* while the pending direction is still the committed one.
pollKeysFirstWins(s, keys) ==
    LET free(n) == n = s.direction
        n1 == IF "KeyLeft" \in keys /\ s.direction # "r" /\ free(s.nextDirection)
              THEN "l" ELSE s.nextDirection
        n2 == IF "KeyRight" \in keys /\ s.direction # "l" /\ free(n1) THEN "r" ELSE n1
        n3 == IF "KeyUp" \in keys /\ s.direction # "d" /\ free(n2) THEN "u" ELSE n2
        n4 == IF "KeyDown" \in keys /\ s.direction # "u" /\ free(n3) THEN "d" ELSE n3
    IN  [s EXCEPT !.nextDirection = n4]

\* pollKeys writing an accepted request into the committed direction as well.
pollKeysCommits(s, keys) ==
    LET n1 == IF "KeyLeft" \in keys /\ s.direction # "r" THEN "l" ELSE s.nextDirection
        n2 == IF "KeyRight" \in keys /\ s.direction # "l" THEN "r" ELSE n1
        n3 == IF "KeyUp" \in keys /\ s.direction # "d" THEN "u" ELSE n2
        n4 == IF "KeyDown" \in keys /\ s.direction # "u" THEN "d" ELSE n3
    IN  [s EXCEPT !.nextDirection = n4, !.direction = n4]

\* run(): the four key tests of one frame, in the order of the code.
pollKeys(s, keys) ==
    LET n1 == IF "KeyLeft" \in keys /\ s.direction # "r" THEN "l" ELSE s.nextDirection
        n2 == IF "KeyRight" \in keys /\ s.direction # "l" THEN "r" ELSE n1
        n3 == IF "KeyUp" \in keys /\ s.direction # "d" THEN "u" ELSE n2
        n4 == IF "KeyDown" \in keys /\ s.direction # "u" THEN "d" ELSE n3
    IN  [s EXCEPT !.nextDirection = n4]

----------------------------------------------------------------------------
\* run() up to the frame loop: snake.generateNextPoint() places the first food.
Init ==
    /\ snake \in {[snake0 EXCEPT !.nextPoint = p] : p \in generateNextPoint(snake0, MaxDepth)}
    /\ crashed = FALSE
    /\ pressed = {}
    /\ ticks = 0
    /\ ticked = FALSE
    /\ lenBefore = 0
    /\ ate = FALSE
    /\ moved = snake0.tail

\* One iteration of the frame loop with dt <= frequency: the key tests only.
FrameIdle(keys) ==
    /\ ~crashed
    /\ snake' = pollKeys(snake, keys)
    /\ UNCHANGED <<crashed, ticks, ate, lenBefore, moved>>

\* One iteration of the frame loop with dt > frequency: the key tests, then
\* snake.move(); snake.checkPoint(); snake.checkCollisions(). The slice of
\* move out of range is a panic. checkPoint leaving no snake behind means that
\* generateNextPoint rejects every draw: each rejected draw nests one more
\* call, none returns, and the goroutine stack overflows (a fatal error).
FrameTick(keys) ==
    /\ ~crashed
    /\ ticks' = ticks + 1
    /\ LET polled == pollKeys(snake, keys)
       IN  IF movePanics(polled)
           THEN /\ crashed' = TRUE
                /\ snake' = polled
                /\ UNCHANGED <<ate, lenBefore, moved>>
           ELSE LET stepped == move(polled)
                    fedSet == checkPoint(stepped)
                IN  /\ moved' = stepped.tail
                    /\ ate' = (stepped.head = stepped.nextPoint)
                    /\ lenBefore' = IF stepped.head = stepped.nextPoint
                                    THEN Len(polled.tail) ELSE 0
                    /\ IF fedSet = {}
                       THEN /\ crashed' = TRUE
                            /\ snake' = [stepped EXCEPT !.growth = stepped.growth + 1]
                       ELSE /\ crashed' = FALSE
                            /\ \E fed \in fedSet : snake' = checkCollisions(fed)

\* The frame loop of run(), up to MaxTicks ticks, the inputs not recorded.
Next ==
    \E keys \in KeySets :
        \/ FrameIdle(keys) /\ UNCHANGED <<pressed, ticked>>
        \/ ticks < MaxTicks /\ FrameTick(keys) /\ UNCHANGED <<pressed, ticked>>

Spec == Init /\ [][Next]_vars

\* The frame loop of run(), up to MaxWatched ticks, the inputs of each frame
\* recorded in `pressed` and `ticked`.
NextWatched ==
    \E keys \in KeySets :
        \/ FrameIdle(keys) /\ pressed' = keys /\ ticked' = FALSE
        \/ ticks < MaxWatched /\ FrameTick(keys) /\ pressed' = keys /\ ticked' = TRUE

SpecWatched == Init /\ [][NextWatched]_vars

----------------------------------------------------------------------------
\* Type correctness of the state.
TypeOK ==
    /\ snake.direction \in Directions
    /\ snake.nextDirection \in Directions
    /\ snake.growth \in Nat
    /\ crashed \in BOOLEAN
    /\ pressed \subseteq Keys
    /\ ticked \in BOOLEAN
    /\ ticks \in Nat
    /\ ate \in BOOLEAN

\* Vocabulary of the properties.
InGrid(p) == p.x \in 1..size /\ p.y \in 1..size

cells(seq) == {seq[i] : i \in DOMAIN seq}

occupied(s) == {s.head} \cup cells(s.tail)

Reverse(d) ==
    IF d = "u" THEN "d" ELSE IF d = "d" THEN "u" ELSE IF d = "l" THEN "r" ELSE "l"

dirOf(k) ==
    IF k = "KeyLeft" THEN "l" ELSE IF k = "KeyRight" THEN "r"
    ELSE IF k = "KeyUp" THEN "u" ELSE "d"

\* The step is a frame that ticked.
TickStep == ticks' # ticks

\* The move step of the last tick left a tail cell under the head.
hitAfterMove == \E i \in DOMAIN moved : moved[i] = snake.head

----------------------------------------------------------------------------
\* Snake.move as a function of the snake it is called on: the head on any
\* cell of the board, any committed and pending direction, growth 0 or 1,
\* the tail and the food of the initial snake.
InitMove ==
    /\ snake \in {[snake0 EXCEPT !.head = h, !.direction = d,
                                 !.nextDirection = n, !.growth = g] :
                     h \in Grid, d \in Directions, n \in Directions, g \in 0..1}
    /\ crashed = FALSE
    /\ pressed = {}
    /\ ticked = FALSE
    /\ ticks = 0
    /\ lenBefore = 0
    /\ ate = FALSE
    /\ moved = snake.tail

\* One call of snake.move().
MoveStep ==
    /\ ticks = 0
    /\ ticks' = 1
    /\ snake' = move(snake)
    /\ moved' = snake'.tail
    /\ UNCHANGED <<crashed, pressed, ticked, ate, lenBefore>>

SpecMove == InitMove /\ [][MoveStep]_vars

----------------------------------------------------------------------------
\* One game, played to its end: the player steers the snake along a closed
\* tour of the board, up each column and one column to the right on the
\* diagonal, and every draw of the food gives the free cell nearest ahead.

\* The direction the player wants at head h.
steer(h) == IF h.x = h.y THEN "r" ELSE "u"

\* The key the player holds down in a frame.
steerKeys(h) == IF steer(h) = "r" THEN {"KeyRight"} ELSE {"KeyUp"}

\* The first cell of the draw range, on the tour from cell c on (at most n
\* cells further), that snake s does not occupy; c itself when there is none.
RECURSIVE nearestAhead(_, _, _)
nearestAhead(s, c, n) ==
    LET next == stepHead(c, steer(c))
    IN  IF n = 0 THEN c
        ELSE IF next \in drawRange /\ next \notin occupied(s) THEN next
        ELSE nearestAhead(s, next, n - 1)

\* The food the draws of this game leave behind in snake s.
guidedFood(s) == nearestAhead(s, s.head, size * size)

\* The frame loop of run() in this game.
NextGuided ==
    \/ FrameIdle(steerKeys(snake.head)) /\ UNCHANGED <<pressed, ticked>>
    \/ /\ FrameTick(steerKeys(snake.head))
       /\ (ate' /\ ~crashed') => snake'.nextPoint = guidedFood(snake')
       /\ UNCHANGED <<pressed, ticked>>

InitGuided == Init /\ snake.nextPoint = guidedFood(snake)

SpecGuided == InitGuided /\ [][NextGuided]_vars

----------------------------------------------------------------------------
\* C1: in every reachable state the head and every tail cell have both
\* coordinates in [1, size].
C1_InGrid ==
    /\ InGrid(snake.head)
    /\ \A i \in DOMAIN snake.tail : InGrid(snake.tail[i])

\* A tick has wrapped the head from row 1 to row `size`, the tail still on row 1.
C1_Witness ==
    /\ ticks > 0
    /\ snake.head.y = size
    /\ snake.tail[1].y = 1

\* C2: when generateNextPoint returns (before the first frame, or in a tick
\* that consumed the food) the new food differs from the head and from every
\* tail cell the snake has at that moment.
C2_FoodDistinct ==
    (ticks = 0 \/ ate) =>
        /\ snake.nextPoint # snake.head
        /\ snake.nextPoint \notin cells(moved)

\* A tick consumed the food and a new food has been placed.
C2_Witness ==
    /\ ate
    /\ snake.growth = 1
    /\ snake.nextPoint \notin occupied(snake)

\* C3: every cell of the full grid that the snake does not occupy, column
\* `size` and row `size` included, is a possible result of a food placement.
C3_FullGridDraw ==
    \A c \in Grid :
        c \notin occupied(snake) => c \in generateNextPoint(snake, MaxDepth)

\* C4 (as stated): a tick changes the tail length by at most one.
C4_AtMostOne ==
    [][TickStep =>
        Len(snake'.tail) - Len(snake.tail) \in {-1, 0, 1}]_vars

\* C4 (amended): a tick makes the tail at most one cell longer; without a
\* collision the length is unchanged or one more; a collision truncation
\* is the only way it gets shorter, and it can remove more than one cell.
C4_GrowthByOne ==
    [][TickStep =>
        /\ Len(snake'.tail) <= Len(snake.tail) + 1
        /\ ~hitAfterMove' =>
               Len(snake'.tail) - Len(snake.tail) \in {0, 1}]_vars

\* A collision has cut more than one cell off the tail in one tick.
C4_Witness ==
    /\ ticks > 0
    /\ hitAfterMove
    /\ Len(moved) - Len(snake.tail) >= 2

\* C5: every tick succeeds: no run-time error ends the process, neither a
\* slice out of range in the tail rebuild nor a food placement that never
\* returns.
C5_NoPanic == ~crashed

\* Ticks have succeeded, the last one on a tail that a collision had cut or
\* is cutting.
C5_Witness ==
    /\ ~crashed
    /\ ticks > 0
    /\ Len(snake.tail) < Len(snake0.tail)

\* The key whose request is the reverse of direction d.
reverseKey(d) ==
    IF d = "u" THEN "KeyDown" ELSE IF d = "d" THEN "KeyUp"
    ELSE IF d = "l" THEN "KeyRight" ELSE "KeyLeft"

\* Place of a key in the order run() tests the keys.
keyRank(k) ==
    IF k = "KeyLeft" THEN 1 ELSE IF k = "KeyRight" THEN 2
    ELSE IF k = "KeyUp" THEN 3 ELSE 4

\* The keys of a frame whose request is accepted when d is committed.
acceptedKeys(keys, d) == {k \in keys : dirOf(k) # Reverse(d)}

\* C6 (as stated): a request for the reverse of the committed direction,
\* followed by a tick, leaves the committed direction unchanged.
C6_ReverseKeepsDirection ==
    [][(ticked' /\ pressed' = {reverseKey(snake.direction)}) =>
        snake'.direction = snake.direction]_vars

\* C6 (amended): a request for the reverse of the committed direction is
\* dropped: alone in a frame without a tick it changes nothing, and the tick
\* after it commits the direction that was pending before the request, which
\* is not the reverse (and is the committed direction itself when no other
\* request had been accepted since the last tick).
C6_ReverseDropped ==
    [][(pressed' = {reverseKey(snake.direction)}) =>
        IF ticked'
        THEN /\ snake'.direction = snake.nextDirection
             /\ snake'.direction # Reverse(snake.direction)
        ELSE snake' = snake]_vars

\* Committed direction Right, Left requested in the frame of a tick, and the
\* committed direction is Right after it.
C6_Witness ==
    /\ ticked
    /\ pressed = {"KeyLeft"}
    /\ snake.direction = "r"
    /\ snake.head.x = snake.tail[1].x + 1

\* C7: a single request d sets the pending direction to d exactly when d is
\* not the reverse of the committed direction, and changes nothing otherwise;
\* the pending direction is never the reverse of the committed one, and a
\* tick never moves the head onto the first tail cell.
C7_RequestFilter ==
    [][/\ \A k \in Keys :
            pressed' = {k} =>
                snake'.nextDirection =
                    IF dirOf(k) # Reverse(snake.direction)
                    THEN dirOf(k) ELSE snake.nextDirection
       /\ (~ticked' /\ pressed' = {reverseKey(snake.direction)}) => snake' = snake
       /\ snake.nextDirection # Reverse(snake.direction)
       /\ snake'.nextDirection # Reverse(snake'.direction)
       /\ ticked' => snake'.head # snake.tail[1]]_vars

\* An accepted request is pending and a reverse request has just been dropped.
C7_Witness ==
    /\ ~ticked
    /\ pressed = {reverseKey(snake.direction)}
    /\ snake.nextDirection # snake.direction

\* C8: the pending direction after a frame is the request accepted last in
\* that frame, whatever was pending before, or the pending direction of before
\* if the frame accepted none; a tick commits exactly that direction and leaves
\* it pending, so nothing accepted earlier is left to act on a later tick.
C8_LastWriterWins ==
    [][LET acc == acceptedKeys(pressed', snake.direction)
       IN  /\ acc = {} => snake'.nextDirection = snake.nextDirection
           /\ acc # {} =>
                  \E k \in acc :
                      /\ \A o \in acc : keyRank(o) <= keyRank(k)
                      /\ snake'.nextDirection = dirOf(k)
           /\ ticked' => snake'.direction = snake'.nextDirection
           /\ ~ticked' => snake'.direction = snake.direction]_vars

\* Up was committed; a frame without a tick accepted Left, then the frame of
\* the first tick asked for Down, which was dropped, and the tick went Left,
\* the way of the last accepted request.
C8_Witness ==
    /\ ticked
    /\ ticks = 1
    /\ pressed = {"KeyDown"}
    /\ snake.direction = "l"
    /\ snake.head = Point(2, 3)

\* C9 (as stated): a tick that moves the head onto the food leaves the growth
\* counter at 1 and the tail length unchanged, and the next tick ends with the
\* tail one longer than before either tick.
C9_GrowthDelay ==
    [][TickStep =>
        /\ snake'.head = snake.nextPoint =>
               /\ snake'.growth = 1
               /\ Len(snake'.tail) = Len(snake.tail)
        /\ ate => Len(snake'.tail) = lenBefore + 1]_vars

\* C9 (amended): a tick that moves the head onto the food leaves the growth
\* counter at 1 and the tail as long as before plus the growth that was
\* pending (0 or 1); the move step of the next tick makes the tail one longer
\* than the eating tick left it, and that tick ends with this length unless its
\* collision check truncates the tail.
C9_GrowthDelayAmended ==
    [][TickStep =>
        /\ snake'.head = snake.nextPoint =>
               /\ snake'.growth = 1
               /\ Len(snake'.tail) = Len(snake.tail) + snake.growth
        /\ ate =>
               /\ Len(moved') = Len(snake.tail) + 1
               /\ ~hitAfterMove' => Len(snake'.tail) = Len(snake.tail) + 1]_vars

\* The tick after a consumption has made the tail longer than the initial one.
C9_Witness ==
    /\ ~ate
    /\ snake.growth = 0
    /\ Len(snake.tail) = Len(snake0.tail) + 1

\* C10: a tick ends with the tail cut to the cells before the first cell of
\* the rebuilt tail that equals the new head, or with the rebuilt tail
\* unchanged if there is none; it never ends the game.
C10_Truncation ==
    ticks > 0 =>
        /\ ~crashed
        /\ IF hitAfterMove
           THEN \E i \in DOMAIN moved :
                    /\ moved[i] = snake.head
                    /\ \A j \in 1..(i - 1) : moved[j] # snake.head
                    /\ snake.tail = SubSeq(moved, 1, i - 1)
           ELSE snake.tail = moved

\* A tick found the new head at the fourth cell of the rebuilt tail and kept
\* the three cells before it.
C10_Witness ==
    /\ ticks > 0
    /\ Len(moved) >= 4
    /\ moved[4] = snake.head
    /\ Len(snake.tail) = 3
----------------------------------------------------------------------------
\* C11: in every state between ticks (after the first placement and after
\* each complete tick) the food cell is neither the head nor a tail cell.
C11_FoodOffSnake ==
    ~crashed => snake.nextPoint \notin occupied(snake)

\* A tick has passed since the food was placed on a cell the initial snake
\* lay on, and the food is still off the snake.
C11_Witness ==
    /\ ticks > 0
    /\ ~ate
    /\ ~crashed
    /\ snake.nextPoint \in cells(snake0.tail)
    /\ snake.nextPoint \notin occupied(snake)


\* C12: whenever food placement is invoked (in run() before the first frame,
\* in checkPoint when the head is on the food), a cell of the draw range is
\* off the head and off the tail as the move step left it, and the placement
\* returns.
C12_PlacementTerminates ==
    (ticks = 0 \/ ate) =>
        /\ ~crashed
        /\ \E c \in drawRange : c # snake.head /\ c \notin cells(moved)


\* C13: the move step of a tick leaves as tail the head of before the tick
\* followed by the old tail without its last delta cells, delta being 0 when
\* the growth counter was positive (the move step then takes 1 off the
\* counter and the tail is one cell longer) and 1 otherwise (same length).
\* From head (3,3), tail (3,4)..(3,8), growth 0, a tick upwards gives head
\* (3,2) and tail (3,3)..(3,7).
C13_TailRebuild ==
    [][ TickStep =>
          LET delta == IF snake.growth > 0 THEN 0 ELSE 1
              eaten == IF ate' THEN 1 ELSE 0
          IN  /\ moved' = <<snake.head>> \o SubSeq(snake.tail, 1, Len(snake.tail) - delta)
              /\ Len(moved') = Len(snake.tail) + 1 - delta
              /\ snake'.growth = snake.growth - (1 - delta) + eaten
              /\ ( /\ snake.head = Point(3, 3)
                   /\ snake.tail = <<Point(3, 4), Point(3, 5), Point(3, 6),
                                     Point(3, 7), Point(3, 8)>>
                   /\ snake.growth = 0
                   /\ snake'.direction = "u" )
                 => /\ snake'.head = Point(3, 2)
                    /\ moved' = <<Point(3, 3), Point(3, 4), Point(3, 5),
                                  Point(3, 6), Point(3, 7)>> ]_vars

\* The first tick went upwards from the initial snake.
C13_Witness ==
    /\ ticks = 1
    /\ snake.head = Point(3, 2)
    /\ moved = <<Point(3, 3), Point(3, 4), Point(3, 5), Point(3, 6), Point(3, 7)>>


\* A coordinate one step back and one step on, on the torus of `size` cells.
back(c) == IF c - 1 = 0 THEN size ELSE c - 1

forth(c) == IF c + 1 = size + 1 THEN 1 ELSE c + 1

\* C14: the move step commits the pending direction and moves the head one
\* cell in it (up y-1, down y+1, left x-1, right x+1); a coordinate that
\* would be size+1 becomes 1, one that would be 0 becomes size, and the other
\* coordinate stays. From (3,1) upwards the head comes to (3,10).
C14_StepAndWrap ==
    [][ TickStep =>
          LET h == snake.head
              d == snake'.direction
          IN  /\ d = snake.nextDirection
              /\ d = "u" => snake'.head = Point(h.x, back(h.y))
              /\ d = "d" => snake'.head = Point(h.x, forth(h.y))
              /\ d = "l" => snake'.head = Point(back(h.x), h.y)
              /\ d = "r" => snake'.head = Point(forth(h.x), h.y)
              /\ (h = Point(3, 1) /\ d = "u") => snake'.head = Point(3, size) ]_vars

\* The head has gone up from (3,1) to (3,10), against the committed direction
\* of before.
C14_Witness ==
    /\ ticks = 1
    /\ moved[1] = Point(3, 1)
    /\ snake.direction = "u"
    /\ snake.head = Point(3, size)


\* C15: a tick whose moved head is on the food moves the food and adds 1 to
\* the growth counter; a tick whose moved head is off the food leaves the
\* food where it is and adds nothing to the counter (the move step alone
\* takes 1 off a positive counter). The key tests of a frame change nothing
\* but the pending direction: not the head, the tail, the committed
\* direction, the growth counter or the food.
C15_FrameEffect ==
    [][ /\ TickStep =>
             LET used == IF snake.growth > 0 THEN 1 ELSE 0
             IN  IF snake'.head = snake.nextPoint
                 THEN /\ snake'.nextPoint # snake.nextPoint
                      /\ snake'.growth = snake.growth - used + 1
                 ELSE /\ snake'.nextPoint = snake.nextPoint
                      /\ snake'.growth = snake.growth - used
        /\ ~TickStep =>
             /\ snake'.head = snake.head
             /\ snake'.tail = snake.tail
             /\ snake'.direction = snake.direction
             /\ snake'.growth = snake.growth
             /\ snake'.nextPoint = snake.nextPoint
        /\ \A keys \in KeySets :
             pollKeys(snake, keys) = [snake EXCEPT !.nextDirection =
                                                   pollKeys(snake, keys).nextDirection]
      ]_vars

\* A frame without tick has taken a turn request after a tick that did not
\* eat: the turn is pending, the snake and the food are where the tick left
\* them.
C15_Witness ==
    /\ ticks > 0
    /\ ~ate
    /\ snake.nextDirection # snake.direction
    /\ snake.tail = moved
    /\ snake.growth = 0


\* C16: between ticks the growth counter is 0 or 1, also after food eaten in
\* two ticks running.
C16_GrowthAtMostOne == snake.growth \in {0, 1}

\* The last tick ate, and its move step made the tail one cell longer for the
\* food the tick before had eaten: the counter is 1, not 2.
C16_Witness ==
    /\ ate
    /\ ~crashed
    /\ Len(moved) = lenBefore + 1
    /\ snake.growth = 1


\* C17: the tail has at least 3 cells in every reachable state: the first
\* tail cell a moved head can be on has index 3 or more (counted from 0, as
\* checkCollisions does), and the cut keeps the cells before it.
C17_TailAtLeastThree ==
    /\ Len(snake.tail) >= 3
    /\ \A i \in DOMAIN moved : (~crashed /\ moved[i] = snake.head) => i - 1 >= 3

\* The head has run into the tail cell of index 3, and 3 cells are left.
C17_Witness ==
    /\ ticks > 0
    /\ ~crashed
    /\ moved[4] = snake.head
    /\ Len(snake.tail) = 3


\* C18: after every complete tick the head and the tail cells are pairwise
\* distinct, and just after the move step at most one tail cell is the head's
\* cell.
C18_NoCellTwice ==
    ~crashed =>
        /\ Cardinality(occupied(snake)) = Len(snake.tail) + 1
        /\ Cardinality({i \in DOMAIN moved : moved[i] = snake.head}) <= 1

\* The move step of the last tick put the head on one tail cell, and after
\* the cut no cell is occupied twice.
C18_Witness ==
    /\ ticks > 0
    /\ ~crashed
    /\ Cardinality({i \in DOMAIN moved : moved[i] = snake.head}) = 1
    /\ Cardinality(occupied(snake)) = Len(snake.tail) + 1


\* Two cells one step apart on one axis of the torus, equal on the other.
adjacent(a, b) ==
    \/ a.x = b.x /\ (a.y = forth(b.y) \/ a.y = back(b.y))
    \/ a.y = b.y /\ (a.x = forth(b.x) \/ a.x = back(b.x))

\* Every two consecutive cells of a sequence are adjacent.
chained(seq) == \A i \in 1..(Len(seq) - 1) : adjacent(seq[i], seq[i + 1])

\* C19: in every reachable state the snake is contiguous on the torus: the
\* head and the first tail cell, and every two consecutive tail cells, are
\* one step apart on one axis modulo size; so is the tail as the move step
\* leaves it, grown or not, and the tail that the cut of a collision leaves.
C19_Contiguous ==
    ~crashed =>
        /\ adjacent(snake.head, snake.tail[1])
        /\ chained(snake.tail)
        /\ chained(moved)

\* The head has wrapped from column 1 to column `size`; the first tail cell
\* is in column 1.
C19_Witness ==
    /\ ticks > 0
    /\ ~crashed
    /\ snake.head.x = size
    /\ snake.tail[1].x = 1
    /\ adjacent(snake.head, snake.tail[1])

====
